---- MODULE Spec2Model ----
(***************************************************************************)
(* The SQL safety gate of AI-Dashboard: SQLValidator and                   *)
(* SecureQueryExecutor of src/sql_validator.py.                            *)
(*                                                                         *)
(* Query texts are TLA+ strings; a character is a string of length one.    *)
(* The validator's regular expressions, str methods and the parts of the   *)
(* sqlparse library it calls (lexer, statement splitter, comment           *)
(* stripping, keyword casing) are operators on strings, computed character *)
(* by character as the Python code computes them.                          *)
(***************************************************************************)
EXTENDS Integers, Sequences, FiniteSets, TLC

(***************************************************************************)
(* Bounds of the model.                                                    *)
(***************************************************************************)
\* the number of fragments that may follow the head of a candidate query
MaxFrags == 2

(***************************************************************************)
(* Characters and Python str methods.                                      *)
(***************************************************************************)
\* s[i-1:i], the empty string outside the text
At(s, i) == IF 1 <= i /\ i <= Len(s) THEN SubSeq(s, i, i) ELSE ""

\* s[i-1:]
From(s, i) == IF i > Len(s) THEN "" ELSE SubSeq(s, i, Len(s))

\* s.startswith(sub, i-1)
StartsAt(s, i, sub) ==
    /\ 1 <= i
    /\ i + Len(sub) - 1 <= Len(s)
    /\ SubSeq(s, i, i + Len(sub) - 1) = sub

\* `sub in s`
Contains(s, sub) == \E i \in 1..(Len(s) + 1 - Len(sub)) : StartsAt(s, i, sub)

LowerLetters == <<"a", "b", "c", "d", "e", "f", "g", "h", "i", "j", "k", "l", "m",
                  "n", "o", "p", "q", "r", "s", "t", "u", "v", "w", "x", "y", "z">>

UpperLetters == <<"A", "B", "C", "D", "E", "F", "G", "H", "I", "J", "K", "L", "M",
                  "N", "O", "P", "Q", "R", "S", "T", "U", "V", "W", "X", "Y", "Z">>

Range(f) == {f[i] : i \in DOMAIN f}

Digits == {"0", "1", "2", "3", "4", "5", "6", "7", "8", "9"}

Letters == Range(LowerLetters) \cup Range(UpperLetters)

\* the regular expression class \w
WordChars == Letters \cup Digits \cup {"_"}

\* the characters str.strip() removes and \s matches
SpaceChars == {" ", "\n", "\t"}

UpperChar(c) ==
    IF c \in Range(LowerLetters)
    THEN UpperLetters[CHOOSE i \in DOMAIN LowerLetters : LowerLetters[i] = c]
    ELSE c

RECURSIVE upper(_)
\* str.upper()
upper(s) == IF s = "" THEN "" ELSE UpperChar(Head(s)) \o upper(Tail(s))

RECURSIVE rstripChars(_, _)
\* str.rstrip(chars)
rstripChars(s, chars) ==
    IF s # "" /\ At(s, Len(s)) \in chars
    THEN rstripChars(SubSeq(s, 1, Len(s) - 1), chars)
    ELSE s

RECURSIVE lstripChars(_, _)
lstripChars(s, chars) ==
    IF s # "" /\ Head(s) \in chars THEN lstripChars(Tail(s), chars) ELSE s

\* str.strip()
strip(s) == lstripChars(rstripChars(s, SpaceChars), SpaceChars)

\* str.rstrip()
rstrip(s) == rstripChars(s, SpaceChars)

\* the position of the first occurrence of sub in s at or after i, 0 if none
Find(s, sub, i) ==
    LET hits == {j \in i..(Len(s) + 1 - Len(sub)) : StartsAt(s, j, sub)}
    IN IF hits = {} THEN 0 ELSE CHOOSE j \in hits : \A k \in hits : j <= k

RECURSIVE split(_, _)
\* str.split(sep) for a one-character separator
split(s, sep) ==
    LET j == Find(s, sep, 1)
    IN IF j = 0 THEN <<s>>
       ELSE <<SubSeq(s, 1, j - 1)>> \o split(From(s, j + 1), sep)

RECURSIVE join(_, _)
\* sep.join(parts)
join(parts, sep) ==
    IF parts = <<>> THEN ""
    ELSE IF Len(parts) = 1 THEN parts[1]
    ELSE parts[1] \o sep \o join(Tail(parts), sep)

\* re.search(r'\b' + word + r'\b', s), for a word that starts and ends with \w
WordSearch(word, s) ==
    \E i \in 1..(Len(s) + 1 - Len(word)) :
        /\ StartsAt(s, i, word)
        /\ (i = 1 \/ At(s, i - 1) \notin WordChars)
        /\ (i + Len(word) > Len(s) \/ At(s, i + Len(word)) \notin WordChars)

(***************************************************************************)
(* The sqlparse library, as far as the validator uses it.  The library is  *)
(* not part of the repository; the operators below follow its lexer        *)
(* (sqlparse.lexer, keywords.SQL_REGEX), its statement splitter            *)
(* (engine.statement_splitter), and its filters StripCommentsFilter,       *)
(* KeywordCaseFilter and SerializerUnicode, for texts made of letters,     *)
(* digits, '_', blanks, newlines and the characters ; ' ( ) , = * / -      *)
(***************************************************************************)
Tok(ttype, value) == [ttype |-> ttype, value |-> value]

\* keywords.KEYWORDS / KEYWORDS_COMMON, the entries for the words of the model
DMLWords == {"SELECT", "INSERT", "UPDATE", "DELETE"}

DDLWords == {"DROP", "ALTER"}

OtherKeywords == {"FROM", "WHERE", "INTO", "LIMIT", "OR", "AND", "TABLE", "AS", "IN"}

\* keywords.is_keyword
is_keyword(value) ==
    LET u == upper(value)
    IN IF u \in DMLWords THEN "DML"
       ELSE IF u \in DDLWords THEN "DDL"
       ELSE IF u \in OtherKeywords THEN "Keyword"
       ELSE "Name"

KeywordTypes == {"DML", "DDL", "Keyword"}

\* the longest prefix of s made of characters of the set chars
RECURSIVE Run(_, _)
Run(s, chars) ==
    IF s # "" /\ Head(s) \in chars THEN Head(s) \o Run(Tail(s), chars) ELSE ""

\* the end of the string literal that opens before position p:
\* '(''|[^'])*' with the regular expression's backtracking; 0 if it never closes
RECURSIVE StrEnd(_, _)
StrEnd(s, p) ==
    IF p > Len(s) THEN 0
    ELSE IF At(s, p) # "'" THEN StrEnd(s, p + 1)
    ELSE IF At(s, p + 1) = "'"
         THEN LET r == StrEnd(s, p + 2) IN IF r # 0 THEN r ELSE p
         ELSE p

\* the first token of a non-empty text: the first rule of SQL_REGEX that matches
FirstToken(s) ==
    LET c == Head(s)
        word == Run(s, WordChars)
        num == Run(s, Digits)
        after(v) == At(s, Len(v) + 1)
    IN IF StartsAt(s, 1, "--")
       THEN LET nl == Find(s, "\n", 3)
            IN Tok("Comment.Single", IF nl = 0 THEN s ELSE SubSeq(s, 1, nl))
       ELSE IF StartsAt(s, 1, "/*") /\ Find(s, "*/", 3) # 0
       THEN Tok("Comment.Multiline", SubSeq(s, 1, Find(s, "*/", 3) + 1))
       ELSE IF c = "\n" THEN Tok("Newline", c)
       ELSE IF c \in SpaceChars THEN Tok("Whitespace", c)
       ELSE IF c = "*" THEN Tok("Wildcard", c)
       ELSE IF upper(word) \in {"CASE", "IN", "VALUES", "USING", "FROM", "AS"}
       THEN Tok("Keyword", word)
       ELSE IF c \in Letters /\ after(word) = "("
       THEN Tok("Name", word)
       ELSE IF num # "" /\ after(num) \notin (Letters \cup {"_"})
       THEN Tok("Number", num)
       ELSE IF Len(num) > 1
       THEN Tok("Number", SubSeq(num, 1, Len(num) - 1))
       ELSE IF c = "'"
       THEN IF StrEnd(s, 2) # 0 THEN Tok("String", SubSeq(s, 1, StrEnd(s, 2)))
            ELSE Tok("Error", c)
       ELSE IF word # "" THEN Tok(is_keyword(word), word)
       ELSE IF c \in {";", "(", ")", ","} THEN Tok("Punctuation", c)
       ELSE IF c = "=" THEN Tok("Comparison", Run(s, {"="}))
       ELSE IF c \in {"/", "-"} THEN Tok("Operator", Run(s, {"/", "-"}))
       ELSE Tok("Error", c)

RECURSIVE tokenize(_)
\* lexer.tokenize
tokenize(s) ==
    IF s = "" THEN <<>>
    ELSE LET t == FirstToken(s) IN <<t>> \o tokenize(From(s, Len(t.value) + 1))

RECURSIVE Text(_)
\* str() of a token list
Text(toks) == IF toks = <<>> THEN "" ELSE toks[1].value \o Text(Tail(toks))

is_whitespace(t) == t.ttype \in {"Whitespace", "Newline"}

is_comment(t) == t.ttype \in {"Comment.Single", "Comment.Multiline"}

RECURSIVE SplitFrom(_, _, _, _)
\* StatementSplitter.process: cur is the statement being collected, level the
\* parenthesis depth (it may fall below 0), consume_ws whether a ';' at depth 0 has just ended it
SplitFrom(toks, cur, level, consume_ws) ==
    IF toks = <<>>
    THEN IF cur # <<>> /\ \E i \in DOMAIN cur : ~is_whitespace(cur[i])
         THEN <<cur>> ELSE <<>>
    ELSE LET t == toks[1]
             ends == consume_ws /\ t.ttype \notin {"Whitespace", "Comment.Single"}
             cur1 == IF ends THEN <<>> ELSE cur
             level0 == IF ends THEN 0 ELSE level
             level1 == IF t.ttype = "Punctuation" /\ t.value = "("
                       THEN level0 + 1
                       ELSE IF t.ttype = "Punctuation" /\ t.value = ")"
                       THEN level0 - 1
                       ELSE level0
             semi == t.ttype = "Punctuation" /\ t.value = ";"
                     /\ level1 <= 0
             rest == SplitFrom(Tail(toks), Append(cur1, t), level1,
                               semi \/ (consume_ws /\ ~ends))
         IN IF ends THEN <<cur>> \o rest ELSE rest

\* sqlparse.parse: the statements of a text, each a token list
parse(s) == SplitFrom(tokenize(s), <<>>, 0, FALSE)

(***************************************************************************)
(* SQLValidator.                                                           *)
(***************************************************************************)
FORBIDDEN_KEYWORDS ==
    {"INSERT", "UPDATE", "DELETE", "DROP", "CREATE", "ALTER",
     "TRUNCATE", "REPLACE", "MERGE", "GRANT", "REVOKE",
     "EXEC", "EXECUTE", "CALL", "LOAD", "COPY"}

FORBIDDEN_FUNCTIONS ==
    {"LOAD_FILE", "INTO OUTFILE", "INTO DUMPFILE",
     "SLEEP", "BENCHMARK", "PG_SLEEP"}

\* the alternatives of comment_pattern
DestructiveWords == {"DROP", "DELETE", "INSERT", "UPDATE", "EXEC"}

\* a mutant of _is_select_statement: any DML statement passes
_is_select_statement_any_dml(statement) ==
    LET sig == SelectSeq(statement, LAMBDA t : ~is_whitespace(t) /\ ~is_comment(t))
    IN sig # <<>> /\ sig[1].ttype = "DML"

\* _is_select_statement: token_first(skip_ws=True, skip_cm=True) is a DML
\* token whose value is SELECT
_is_select_statement(statement) ==
    LET sig == SelectSeq(statement, LAMBDA t : ~is_whitespace(t) /\ ~is_comment(t))
    IN /\ sig # <<>>
       /\ sig[1].ttype = "DML"
       /\ upper(sig[1].value) = "SELECT"

\* a mutant of KeywordsFound: the text is not upper-cased before the search
KeywordsFoundCaseSensitive(text) ==
    {keyword \in FORBIDDEN_KEYWORDS : WordSearch(keyword, text)}

\* a mutant of KeywordsFound: the search without the word boundaries
KeywordsFoundSubstring(text) ==
    LET sql_upper == upper(text)
    IN {keyword \in FORBIDDEN_KEYWORDS : Contains(sql_upper, keyword)}

\* the keywords for which re.search(r'\b' + keyword + r'\b', sql_upper) matches
KeywordsFound(text) ==
    LET sql_upper == upper(text)
    IN {keyword \in FORBIDDEN_KEYWORDS : WordSearch(keyword, sql_upper)}

\* a mutant of FunctionsFound: the text is not upper-cased before the search
FunctionsFoundCaseSensitive(text) ==
    {func \in FORBIDDEN_FUNCTIONS : Contains(text, func)}

\* the functions for which `func in sql_upper` holds
FunctionsFound(text) ==
    LET sql_upper == upper(text)
    IN {func \in FORBIDDEN_FUNCTIONS : Contains(sql_upper, func)}

\* a mutant of CommentPatternFound: the search without re.IGNORECASE
CommentPatternFoundCaseSensitive(sql) ==
    \E i \in 1..Len(sql) :
        /\ StartsAt(sql, i, "--")
        /\ \E j \in (i + 2)..Len(sql) :
            /\ \E w \in DestructiveWords : StartsAt(sql, j, w)
            /\ \A k \in (i + 2)..(j - 1) : At(sql, k) # "\n"

\* re.search(r'--.*(?:DROP|DELETE|INSERT|UPDATE|EXEC)', sql, re.IGNORECASE):
\* '.' matches every character but the newline
CommentPatternFound(sql) ==
    LET u == upper(sql)
    IN \E i \in 1..Len(sql) :
        /\ StartsAt(sql, i, "--")
        /\ \E j \in (i + 2)..Len(sql) :
            /\ \E w \in DestructiveWords : StartsAt(u, j, w)
            /\ \A k \in (i + 2)..(j - 1) : At(sql, k) # "\n"

RECURSIVE RemoveStrings(_)
\* re.sub(r"'[^']*'", '', sql)
RemoveStrings(sql) ==
    IF sql = "" THEN ""
    ELSE IF Head(sql) = "'" /\ Find(sql, "'", 2) # 0
         THEN RemoveStrings(From(sql, Find(sql, "'", 2) + 1))
         ELSE Head(sql) \o RemoveStrings(Tail(sql))

\* the stacked-query test of _check_injection_patterns
StackedFound(sql) ==
    LET sql_no_strings == RemoveStrings(sql)
        parts == split(sql_no_strings, ";")
    IN /\ Contains(sql_no_strings, ";")
       /\ Cardinality({i \in DOMAIN parts : strip(parts[i]) # ""}) > 1

\* _check_injection_patterns(sql): the reason appended, "" when the check passes
_check_injection_patterns(sql) ==
    IF (Contains(sql, "--") \/ Contains(sql, "/*") \/ Contains(sql, "*/"))
       /\ CommentPatternFound(sql)
    THEN "Suspicious comment pattern detected"
    ELSE IF StackedFound(sql) THEN "Multiple statements not allowed"
    ELSE ""

\* _check_forbidden_keywords: the reasons the scan can append.  The scan returns
\* at its first match, and the iteration order of a Python set of strings is not
\* fixed, so with several keywords present any of them can be the one reported.
_check_forbidden_keywords(text) ==
    {"Forbidden keyword detected: " \o keyword : keyword \in KeywordsFound(text)}

\* _check_forbidden_functions: likewise
_check_forbidden_functions(text) ==
    {"Forbidden function detected: " \o func : func \in FunctionsFound(text)}

\* _validate_statement: the reasons it can append; {} when the statement passes
_validate_statement(statement) ==
    LET text == Text(statement)
    IN IF ~_is_select_statement(statement)
       THEN {"Only SELECT queries are allowed"}
       ELSE IF _check_forbidden_keywords(text) # {}
       THEN _check_forbidden_keywords(text)
       ELSE IF _check_forbidden_functions(text) # {}
       THEN _check_forbidden_functions(text)
       ELSE IF _check_injection_patterns(text) # ""
       THEN {_check_injection_patterns(text)}
       ELSE {}

Verdict(allowed, reasons) == [allowed |-> allowed, reasons |-> reasons]

RECURSIVE ValidateStatementsNoReasons(_)
\* a mutant of ValidateStatements: the rejection is returned with a new list
ValidateStatementsNoReasons(parsed) ==
    IF parsed = <<>> THEN {Verdict(TRUE, <<>>)}
    ELSE IF _validate_statement(parsed[1]) # {} THEN {Verdict(FALSE, <<>>)}
    ELSE ValidateStatementsNoReasons(Tail(parsed))

RECURSIVE ValidateStatements(_)
\* the loop of validate over the parsed statements: it returns at the first
\* statement that fails
ValidateStatements(parsed) ==
    IF parsed = <<>> THEN {Verdict(TRUE, <<>>)}
    ELSE LET reasons == _validate_statement(parsed[1])
         IN IF reasons # {} THEN {Verdict(FALSE, <<r>>) : r \in reasons}
            ELSE ValidateStatements(Tail(parsed))

\* the text validate() parses: sql.rstrip(';').strip()
Normalized(sql) == strip(rstripChars(sql, {";"}))

\* a mutant of validate: the emptiness check is left out
validateWithoutEmptinessCheck(sql) ==
    LET parsed == parse(Normalized(sql))
    IN IF parsed = <<>>
       THEN {Verdict(FALSE, <<"Unable to parse SQL">>)}
       ELSE ValidateStatements(parsed)

\* validate(sql): the verdicts (is_valid, errors) it can return
validate(sql) ==
    IF sql = "" \/ strip(sql) = ""
    THEN {Verdict(FALSE, <<"Empty query">>)}
    ELSE LET parsed == parse(Normalized(sql))
         IN IF parsed = <<>>
            THEN {Verdict(FALSE, <<"Unable to parse SQL">>)}
            ELSE ValidateStatements(parsed)

\* StripCommentsFilter._get_insert_token: the line breaks that end the comment,
\* else one blank
InsertToken(comment) ==
    LET body == rstripChars(comment.value, {" "})
        kept == rstripChars(body, {"\n"})
    IN IF Len(kept) < Len(body)
       THEN Tok("Newline", SubSeq(body, Len(kept) + 1, Len(body)))
       ELSE Tok("Whitespace", " ")

RECURSIVE StripComments(_, _)
\* StripCommentsFilter._process on the token list of a statement: out is the
\* list before the next token.  A comment is replaced by its insert token,
\* except that it is dropped when nothing or a '(' precedes it.
StripComments(toks, out) ==
    IF toks = <<>> THEN out
    ELSE LET t == toks[1]
             none == out = <<>>
             open == ~none /\ out[Len(out)].ttype = "Punctuation"
                           /\ out[Len(out)].value = "("
         IN IF ~is_comment(t) THEN StripComments(Tail(toks), Append(out, t))
            ELSE IF none \/ open THEN StripComments(Tail(toks), out)
            ELSE StripComments(Tail(toks), Append(out, InsertToken(t)))

RECURSIVE MapRstrip(_)
MapRstrip(lines) ==
    IF lines = <<>> THEN <<>> ELSE <<rstrip(lines[1])>> \o MapRstrip(Tail(lines))

\* SerializerUnicode.process: every line of the statement loses its trailing blanks
SerializerUnicode(text) == join(MapRstrip(split(text, "\n")), "\n")

RECURSIVE KeywordCase(_)
\* KeywordCaseFilter with case 'upper'
KeywordCase(toks) ==
    IF toks = <<>> THEN <<>>
    ELSE LET t == toks[1]
         IN <<IF t.ttype \in KeywordTypes THEN Tok(t.ttype, upper(t.value)) ELSE t>>
            \o KeywordCase(Tail(toks))

RECURSIVE SerializeStripped(_)
SerializeStripped(stmts) ==
    IF stmts = <<>> THEN ""
    ELSE SerializerUnicode(Text(StripComments(stmts[1], <<>>)))
         \o SerializeStripped(Tail(stmts))

RECURSIVE Serialize(_)
Serialize(stmts) ==
    IF stmts = <<>> THEN ""
    ELSE SerializerUnicode(Text(stmts[1])) \o Serialize(Tail(stmts))

\* sqlparse.format(sql, strip_comments=True)
format_strip_comments(sql) == SerializeStripped(parse(sql))

\* sqlparse.format(sql, reindent=False, keyword_case='upper')
format_keyword_case(sql) ==
    Serialize(SplitFrom(KeywordCase(tokenize(sql)), <<>>, 0, FALSE))

\* sanitize_query
sanitize_query(sql) ==
    strip(rstripChars(format_keyword_case(format_strip_comments(sql)), {";"}))

(***************************************************************************)
(* SecureQueryExecutor.                                                    *)
(***************************************************************************)
\* the default of execute_query's parameter max_rows
max_rows == 10000

\* a mutant of AddLimit: the clause is appended to every text
AddLimitAlways(clean_sql) == clean_sql \o " LIMIT " \o ToString(max_rows)

\* the LIMIT rewrite of execute_query
AddLimit(clean_sql) ==
    IF ~Contains(upper(clean_sql), "LIMIT")
    THEN clean_sql \o " LIMIT " \o ToString(max_rows)
    ELSE clean_sql

\* the text execute_query hands to conn.execute for an accepted query
ExecutedText(sql) == AddLimit(strip(rstripChars(sanitize_query(sql), {";"})))

TimeoutStatement == "SET statement_timeout = 30000"

(***************************************************************************)
(* The candidate queries of the model: the text an untrusted generator     *)
(* hands to the gate.                                                      *)
(***************************************************************************)
Heads == {"", "SELECT a ", "SELECT a --", "SELECT a INTO", "SELECT (a"}

Fragments ==
    {" ", "\n", ";", "--", "/**/", "(", "select b", " OR 1=1", "OUTFILE"}

RECURSIVE Bodies(_)
Bodies(n) ==
    IF n = 0 THEN {""}
    ELSE LET shorter == Bodies(n - 1)
         IN shorter \cup {b \o f : b \in shorter, f \in Fragments}

\* a head followed by at most MaxFrags fragments
FragmentQueries == {h \o b : h \in Heads, b \in Bodies(MaxFrags)}

LowerChar(c) ==
    IF c \in Range(UpperLetters)
    THEN LowerLetters[CHOOSE i \in DOMAIN UpperLetters : UpperLetters[i] = c]
    ELSE c

RECURSIVE lower(_)
\* str.lower()
lower(s) == IF s = "" THEN "" ELSE LowerChar(Head(s)) \o lower(Tail(s))

\* every forbidden keyword and function name, in upper and in lower case
PolicyWords ==
    LET names == FORBIDDEN_KEYWORDS \cup FORBIDDEN_FUNCTIONS
    IN names \cup {lower(w) : w \in names}

\* a SELECT with one policy word: as a word of its own, inside an identifier,
\* in a comment, in a string literal, in a second statement
WordQueries ==
    {"SELECT a" \o pre \o w \o post :
        pre \in {" ", "_", " --", " '", ";"}, w \in PolicyWords,
        post \in {"", "_at", "'", "(1)"}}

\* texts that do not start with SELECT
OtherQueries ==
    {w \o post : w \in {"UPDATE", "Drop", "insert", "DELETE"},
                 post \in {"", " a", ";", ";SELECT a", " LIMIT 5"}}

\* texts with LIMIT as a clause, inside an identifier, inside a string literal
\* and inside a comment
LimitQueries ==
    {"SELECT a" \o l \o post :
        l \in {" LIMIT 5", " limit 5", ", credit_limit", " 'limit'", " --LIMIT 5"},
        post \in {"", ";", " ;\n", "\n", " OR 1=1"}}

\* texts that end with terminators: semicolons and whitespace
TerminatedQueries ==
    {q \o t : q \in {"", "SELECT a", "SELECT a --", "Drop"},
              t \in {";", ";;", "; ", ";; ", " ;\n;", ";\n", "; ;"}}

\* a SELECT with an identifier that holds a policy word
IdentifierQueries ==
    {"SELECT a" \o pre \o w \o post :
        pre \in {" ", " --", " --\n", " '", ";"},
        w \in {"updated_at", "createdAt", "executed"}, post \in {"", "'", "\n"}}

\* a SELECT with two different policy words
MixedQueries ==
    {"SELECT a " \o v \o " " \o w :
        v \in {"drop", "CALL", "SLEEP"}, w \in {"delete", "BENCHMARK", "updated_at"}}

Queries ==
    FragmentQueries \cup WordQueries \cup OtherQueries \cup LimitQueries
        \cup IdentifierQueries \cup MixedQueries \cup TerminatedQueries

\* the generated texts process_question hands to the gate
AppQueries == {"SELECT a ", "SELECT a LIMIT 5", "Drop"}

Dialects == {"postgresql", "sqlite"}

\* what the database does with the calls of one execute_query: every call the
\* try block makes on the engine, the connection or the result can raise
DbOutcomes ==
    {"ok", "connect raises", "timeout raises", "execute raises", "fetch raises"}

\* the sqlparse call that raises during a gate call: none, sqlparse.parse in
\* validate(), or sqlparse.format in sanitize_query()
Faults == {"none", "parse", "sanitize"}

\* str(e) of the exception a failing sqlparse call raises
FaultTexts == {"maximum recursion depth exceeded"}

(***************************************************************************)
(* State: a validator and an executor, and the record of the call made on  *)
(* them.  process_question builds a new SQLValidator and a new             *)
(* SecureQueryExecutor for every question and calls the gate once.         *)
(***************************************************************************)
VARIABLES
    op,             \* the method called: "none", "validate" or "execute_query"
    sql,            \* its argument
    verdict,        \* what validate returned in it: (is_valid, errors)
    result,         \* what execute_query returned: (success, result_or_error)
    dialect,        \* engine.dialect.name of the executor's engine
    connect_calls,  \* the engine.connect() calls the call made
    executed,       \* the texts the call handed to conn.execute, in order
    acquired,       \* the connections engine.connect() gave to the call
    released,       \* the connections the call gave back
    result_or_error, \* the dict execute_query returned as second element
    fault,          \* the sqlparse call that raises in this run, if any
    raised,         \* str(e) of the exception the call let escape, "" if none
    process,        \* where validate ran again on sql: "same" or "other" process
    again,          \* what that second run returned
    self_errors,    \* the list object the shared validator's self.errors names
    lists,          \* the list objects validate has created, by number
    pc,             \* where each concurrent caller is in validate
    input,          \* the text each concurrent caller validates
    ret,            \* what validate returned to each concurrent caller
    db_connected,   \* st.session_state.db_connected
    llm_configured, \* st.session_state.llm_configured
    schema_loaded,  \* st.session_state.schema_loaded
    connection_string,  \* st.session_state.connection_string
    schema_description, \* st.session_state.schema_description
    history,        \* st.session_state.history
    asked,          \* process_question has run in this run of the script
    shown,          \* what it has put on the page, in order
    generator_schema,   \* the schema description it gave to generate_sql
    engine_url,     \* the connection string it gave to create_engine
    execute_query_calls \* the calls of executor.execute_query it made

\* the state of two callers inside one validator
threadVars == <<self_errors, lists, pc, input, ret>>

\* the state of the one-call-at-a-time gate
callVars ==
    <<op, sql, verdict, result, dialect, connect_calls, executed, fault, raised,
      process, again, acquired, released, result_or_error>>

\* the session state of the application
sessionVars ==
    <<db_connected, llm_configured, schema_loaded, connection_string,
      schema_description, history>>

\* what one run of process_question has done
questionVars ==
    <<asked, shown, generator_schema, engine_url, execute_query_calls>>

appVars == <<sessionVars, questionVars>>

vars == <<callVars, threadVars, appVars>>

\* the callers that share one SQLValidator
Callers == {1, 2}

\* validate has not been entered by any caller
ThreadsIdle ==
    /\ self_errors = 0
    /\ lists = <<>>
    /\ pc = [c \in Callers |-> "idle"]
    /\ input = [c \in Callers |-> ""]
    /\ ret = [c \in Callers |-> [allowed |-> FALSE, ref |-> 0]]

NoVerdict == Verdict(FALSE, <<>>)

NoResult == [success |-> FALSE, kind |-> "none", errors |-> <<>>]

\* execute_query has returned no dict
NoDict == [none |-> TRUE]

\* no connection has been asked for, and nothing has been returned
GateIdle ==
    /\ acquired = 0
    /\ released = 0
    /\ result_or_error = NoDict

\* the session state before the first connect: db_connected, llm_configured
\* and schema_loaded are False, schema_description is None, history is empty
SessionStart ==
    /\ db_connected = FALSE
    /\ llm_configured = FALSE
    /\ schema_loaded = FALSE
    /\ connection_string = "None"
    /\ schema_description = "None"
    /\ history = <<>>

\* a run of the script in which process_question has not been called
NoQuestion ==
    /\ asked = FALSE
    /\ shown = <<>>
    /\ generator_schema = "None"
    /\ engine_url = "None"
    /\ execute_query_calls = 0

Init ==
    /\ op = "none"
    /\ sql = ""
    /\ verdict = NoVerdict
    /\ result = NoResult
    /\ dialect \in Dialects
    /\ connect_calls = 0
    /\ executed = <<>>
    /\ fault = "none"
    /\ raised = ""
    /\ process = "none"
    /\ again = NoVerdict
    /\ GateIdle
    /\ SessionStart
    /\ NoQuestion
    /\ ThreadsIdle

\* validate, tabulated over the candidate queries
validateOf == [q \in Queries |-> validate(q)]

\* the text sent for an accepted query, tabulated over the candidate queries
ExecutedTextOf == [q \in Queries |-> ExecutedText(q)]

\* what a call of validate ends in: the verdict returned, or the exception
\* that reaches the caller
Outcome(v, e) == [verdict |-> v, raised |-> e]

\* a mutant of ExceptParse: the exception of sqlparse.parse is not caught
ExceptParseUncaught == {Outcome(NoVerdict, e) : e \in FaultTexts}

\* `except Exception as e`: the exception of sqlparse.parse becomes the reason
\* "SQL parsing error: <str(e)>"
ExceptParse ==
    {Outcome(Verdict(FALSE, <<"SQL parsing error: " \o e>>), "") : e \in FaultTexts}

\* validate(q) in a run where the sqlparse call named by fault raises: the
\* emptiness check comes before the parse
ValidateOutcomes(q) ==
    IF fault = "parse" /\ q # "" /\ strip(q) # ""
    THEN ExceptParse
    ELSE {Outcome(v, "") : v \in validateOf[q]}

\* SQLValidator.validate(q), called directly
Validate(q) ==
    /\ op' = "validate"
    /\ sql' = q
    /\ \E o \in ValidateOutcomes(q) :
        /\ verdict' = o.verdict
        /\ raised' = o.raised
    /\ result' = NoResult
    /\ connect_calls' = 0
    /\ executed' = <<>>
    /\ acquired' = 0
    /\ released' = 0
    /\ result_or_error' = NoDict
    /\ UNCHANGED <<dialect, fault, process, again, threadVars, appVars>>

\* validate(sql) once more, on the text of the call before: in the same
\* process the policy sets are the same objects and are iterated in the same
\* order; another process has hash seeds of its own, so that it can find
\* another of the policy words first
ValidateAgain ==
    /\ op = "validate"
    /\ raised = ""
    /\ op' = "validate again"
    /\ \E p \in {"same", "other"} :
        /\ process' = p
        /\ \E o \in ValidateOutcomes(sql) :
            /\ again' = o.verdict
            /\ p = "same" => o.verdict = verdict
    /\ UNCHANGED <<sql, verdict, result, dialect, connect_calls, executed, fault, raised>>
    /\ UNCHANGED <<acquired, released, result_or_error, threadVars, appVars>>

\* a mutant of Statements: the timeout is set after the query has run
StatementsTimeoutLast(q) ==
    <<ExecutedTextOf[q]>>
    \o (IF dialect = "postgresql" THEN <<TimeoutStatement>> ELSE <<>>)

\* the statements execute_query runs on the connection it has acquired
Statements(q) ==
    (IF dialect = "postgresql" THEN <<TimeoutStatement>> ELSE <<>>)
    \o <<ExecutedTextOf[q]>>

\* a mutant of ReturnValidationFailed: the connection is acquired before the
\* verdict is looked at
ReturnValidationFailedConnected(v) ==
    /\ result' = [success |-> FALSE, kind |-> "errors", errors |-> v.reasons]
    /\ result_or_error' = [errors |-> v.reasons]
    /\ connect_calls' = 1
    /\ acquired' = 1
    /\ released' = 1
    /\ executed' = <<>>

\* `if not is_valid: return False, {"errors": errors}`
ReturnValidationFailed(v) ==
    /\ result' = [success |-> FALSE, kind |-> "errors", errors |-> v.reasons]
    /\ result_or_error' = [errors |-> v.reasons]
    /\ connect_calls' = 0
    /\ acquired' = 0
    /\ released' = 0
    /\ executed' = <<>>

\* an exception leaves execute_query before its try block: nothing is returned
Escapes(e) ==
    /\ raised' = e
    /\ result' = NoResult
    /\ result_or_error' = NoDict
    /\ connect_calls' = 0
    /\ acquired' = 0
    /\ released' = 0
    /\ executed' = <<>>

\* a mutant of ExecutedUpTo: a query that raised is sent once more
ExecutedUpToWithRetry(q, outcome) ==
    CASE outcome = "connect raises" -> <<>>
      [] outcome = "timeout raises" -> <<TimeoutStatement>>
      [] outcome = "execute raises" -> Statements(q) \o <<ExecutedTextOf[q]>>
      [] OTHER -> Statements(q)

\* the texts handed to conn.execute up to the call that raises
ExecutedUpTo(q, outcome) ==
    CASE outcome = "connect raises" -> <<>>
      [] outcome = "timeout raises" -> <<TimeoutStatement>>
      [] OTHER -> Statements(q)

\* str(e) of the exception the database raises
DbErrorText(outcome) ==
    CASE outcome = "connect raises" -> "could not connect to server"
      [] outcome = "timeout raises" -> "permission denied to set parameter"
      [] outcome = "execute raises" -> "no such column: a"
      [] OTHER -> "server closed the connection"

\* what result.keys() and result.fetchall() give for a query that ran: the
\* names of the projection, two of them equal in `SELECT a, a`, and the rows
DbResults ==
    {[keys |-> <<"id", "name">>, fetched |-> <<>>],
     [keys |-> <<"id", "name">>, fetched |-> <<<<"1", "Alice">>, <<"2", "Bob">>>>],
     [keys |-> <<"a", "a">>, fetched |-> <<<<"1", "2">>>>]}

\* the results the store can give for a text: the two rows for every text, and
\* for the texts of the application also no row and the repeated name
ResultsOf(q) ==
    IF q \in AppQueries THEN DbResults
    ELSE {r \in DbResults : r.fetched # <<>> /\ r.keys = <<"id", "name">>}

\* dict(zip(columns, row)): the pairs are entered in order, and a later pair
\* replaces an earlier one with the same key
dict_zip(columns, row) ==
    LET n == IF Len(columns) < Len(row) THEN Len(columns) ELSE Len(row)
        last(k) == CHOOSE i \in 1..n :
                       columns[i] = k /\ \A j \in (i + 1)..n : columns[j] # k
    IN [k \in {columns[i] : i \in 1..n} |-> row[last(k)]]

\* the dict of a successful call
QueryResult(columns, rows) ==
    [columns |-> columns,
     rows |-> [i \in 1..Len(rows) |-> dict_zip(columns, rows[i])],
     row_count |-> Len(rows)]

\* a mutant of WithExit: the connection is given back only when nothing raised
WithExitOnSuccessOnly(outcome) == IF outcome = "ok" THEN 1 ELSE 0

\* `with self.engine.connect() as conn`: the connections given back when the
\* block is left, by return or by exception; none was acquired when
\* engine.connect() itself raised
WithExit(outcome) == IF outcome = "connect raises" THEN 0 ELSE 1

\* the try block of execute_query: one connection, the statements run on it
\* until the database raises, and the value returned; `except Exception`
\* turns every exception into (False, {"error": ...})
RunOnConnection(q) ==
    \E outcome \in DbOutcomes :
        /\ outcome = "timeout raises" => dialect = "postgresql"
        /\ connect_calls' = 1
        /\ acquired' = IF outcome = "connect raises" THEN 0 ELSE 1
        /\ released' = WithExit(outcome)
        /\ executed' = ExecutedUpTo(q, outcome)
        /\ IF outcome = "ok"
           THEN /\ result' = [success |-> TRUE, kind |-> "rows", errors |-> <<>>]
                /\ \E r \in ResultsOf(q) :
                       result_or_error' = QueryResult(r.keys, r.fetched)
           ELSE /\ result' = [success |-> FALSE, kind |-> "error", errors |-> <<>>]
                /\ result_or_error' =
                       [error |-> "Query execution error: " \o DbErrorText(outcome)]

\* SecureQueryExecutor.execute_query(q): validate, then sanitize_query outside
\* the try block, then the try block
ExecuteQuery(q) ==
    /\ op' = "execute_query"
    /\ sql' = q
    /\ UNCHANGED <<dialect, fault, process, again, threadVars>>
    /\ \E o \in ValidateOutcomes(q) :
        /\ verdict' = o.verdict
        /\ IF o.raised # "" THEN Escapes(o.raised)
           ELSE IF ~o.verdict.allowed
           THEN ReturnValidationFailed(o.verdict) /\ raised' = ""
           ELSE IF fault = "sanitize"
           THEN \E e \in FaultTexts : Escapes(e)
           ELSE RunOnConnection(q) /\ raised' = ""

\* the next question: SQLValidator() and SecureQueryExecutor(engine, validator)
\* are constructed anew on the same database
Construct ==
    /\ op # "none"
    /\ op' = "none"
    /\ sql' = ""
    /\ verdict' = NoVerdict
    /\ result' = NoResult
    /\ connect_calls' = 0
    /\ executed' = <<>>
    /\ raised' = ""
    /\ process' = "none"
    /\ again' = NoVerdict
    /\ acquired' = 0
    /\ released' = 0
    /\ result_or_error' = NoDict
    /\ UNCHANGED <<dialect, fault, threadVars, appVars>>

\* one call on a newly constructed gate, with any candidate query
CallValidate == op = "none" /\ \E q \in Queries : Validate(q)

CallExecuteQuery ==
    /\ op = "none"
    /\ \E q \in Queries : ExecuteQuery(q)
    /\ UNCHANGED appVars

Next == CallValidate \/ CallExecuteQuery \/ ValidateAgain \/ Construct

Spec == Init /\ [][Next]_vars

(***************************************************************************)
(* Two callers in validate() of one SQLValidator at the same time.  The    *)
(* validator's self.errors is an attribute of the instance: each call      *)
(* binds it to a new list, appends its reason to the list the attribute    *)
(* names at that moment, and returns the list the attribute names at the   *)
(* return statement.  A thread switch can come between any two of these.   *)
(***************************************************************************)
\* the texts the concurrent callers validate
ConcurrentQueries == {"", "SELECT a ", "Drop", "SELECT a grant", "SELECT a --updated_at"}

\* `self.errors = []` on entry to validate(q)
Enter(c, q) ==
    /\ pc[c] = "idle"
    /\ input' = [input EXCEPT ![c] = q]
    /\ lists' = Append(lists, <<>>)
    /\ self_errors' = Len(lists) + 1
    /\ pc' = [pc EXCEPT ![c] = "checking"]
    /\ UNCHANGED <<ret, callVars, appVars>>

\* the checks of validate: the one that fails does self.errors.append(reason)
\* and validate goes to its `return False, self.errors`; if none fails it
\* goes to `return True, []`
RunChecks(c) ==
    /\ pc[c] = "checking"
    /\ \E v \in validate(input[c]) :
        IF v.allowed
        THEN /\ pc' = [pc EXCEPT ![c] = "allowing"]
             /\ UNCHANGED lists
        ELSE /\ pc' = [pc EXCEPT ![c] = "rejecting"]
             /\ lists' = [lists EXCEPT ![self_errors] = @ \o v.reasons]
    /\ UNCHANGED <<self_errors, input, ret, callVars, appVars>>

\* `return False, self.errors`: the caller gets the list the attribute names now
ReturnRejected(c) ==
    /\ pc[c] = "rejecting"
    /\ ret' = [ret EXCEPT ![c] = [allowed |-> FALSE, ref |-> self_errors]]
    /\ pc' = [pc EXCEPT ![c] = "done"]
    /\ UNCHANGED <<self_errors, lists, input, callVars, appVars>>

\* `return True, []`: a new empty list, number 0 here
ReturnAllowed(c) ==
    /\ pc[c] = "allowing"
    /\ ret' = [ret EXCEPT ![c] = [allowed |-> TRUE, ref |-> 0]]
    /\ pc' = [pc EXCEPT ![c] = "done"]
    /\ UNCHANGED <<self_errors, lists, input, callVars, appVars>>

\* both callers have returned; a new validator is shared by the next two calls
ConstructShared ==
    /\ \A c \in Callers : pc[c] = "done"
    /\ self_errors' = 0
    /\ lists' = <<>>
    /\ pc' = [c \in Callers |-> "idle"]
    /\ input' = [c \in Callers |-> ""]
    /\ ret' = [c \in Callers |-> [allowed |-> FALSE, ref |-> 0]]
    /\ UNCHANGED <<callVars, appVars>>

CallerEnters == \E c \in Callers : \E q \in ConcurrentQueries : Enter(c, q)

CallerChecks == \E c \in Callers : RunChecks(c)

CallerReturns == \E c \in Callers : ReturnRejected(c) \/ ReturnAllowed(c)

ConcurrentNext == CallerEnters \/ CallerChecks \/ CallerReturns \/ ConstructShared

ConcurrentSpec == Init /\ [][ConcurrentNext]_vars

\* what a caller that has returned holds: the flag, and the list as it is now
Held(c) ==
    Verdict(ret[c].allowed, IF ret[c].ref = 0 THEN <<>> ELSE lists[ret[c].ref])

\* the runs in which a sqlparse call raises
FaultInit ==
    /\ op = "none"
    /\ sql = ""
    /\ verdict = NoVerdict
    /\ result = NoResult
    /\ dialect \in Dialects
    /\ connect_calls = 0
    /\ executed = <<>>
    /\ fault \in Faults \ {"none"}
    /\ raised = ""
    /\ process = "none"
    /\ again = NoVerdict
    /\ GateIdle
    /\ SessionStart
    /\ NoQuestion
    /\ ThreadsIdle

FaultSpec == FaultInit /\ [][Next]_vars

(***************************************************************************)
(* The application.  Every interaction of the user runs the script once:   *)
(* a connect attempt, the entry of an API key, Clear History, or a         *)
(* question, which process_question takes through generation, the gate and *)
(* the chart.  The session state lasts from run to run; what a run has put *)
(* on the page is gone in the next run.                                    *)
(***************************************************************************)
MaxHistory == 2

\* the databases the user connects to, by connection string; they are of the
\* dialect of the run
ConnectionStrings == {"db_a", "db_b"}

\* what inspector.get_schema_for_llm() returns for a database
SchemaOf(cs) == "schema of " \o cs

\* a connect attempt: engine.connect() raises, or the connection is made and
\* SchemaInspector raises, or both succeed
ConnectOutcomes == {"ok", "connect raises", "schema raises"}

\* load_schema(cs): schema_description and schema_loaded are set when the
\* inspector succeeds; when it raises, schema_loaded becomes False and
\* schema_description stays what it was
load_schema(cs, outcome) ==
    IF outcome = "ok"
    THEN /\ schema_description' = SchemaOf(cs)
         /\ schema_loaded' = TRUE
    ELSE /\ schema_loaded' = FALSE
         /\ UNCHANGED schema_description

\* connect_database(cs): connection_string and db_connected are set as soon as
\* the connection has been made, then load_schema runs; when engine.connect()
\* raises only db_connected is changed
connect_database(cs, outcome) ==
    /\ IF outcome = "connect raises"
       THEN /\ db_connected' = FALSE
            /\ UNCHANGED <<connection_string, schema_description, schema_loaded>>
       ELSE /\ connection_string' = cs
            /\ db_connected' = TRUE
            /\ load_schema(cs, outcome)
    /\ UNCHANGED <<llm_configured, history, questionVars, callVars, threadVars>>

\* an API key is entered in the sidebar
ConfigureLLM ==
    /\ asked = FALSE
    /\ llm_configured' = TRUE
    /\ UNCHANGED <<db_connected, schema_loaded, connection_string,
                   schema_description, history>>
    /\ UNCHANGED <<questionVars, callVars, threadVars>>

\* run() shows query_interface only when the database is connected and the
\* provider is configured
InterfaceShown == db_connected /\ llm_configured

\* the Clear History button of query_interface
ClearHistory ==
    /\ asked = FALSE
    /\ InterfaceShown
    /\ history' = <<>>
    /\ UNCHANGED <<db_connected, llm_configured, schema_loaded,
                   connection_string, schema_description>>
    /\ UNCHANGED <<questionVars, callVars, threadVars>>

\* visualization_hint as the model's answer gives it: any text
Hints == {"auto", "bar", "heatmap"}

\* the keys of VisualizationGenerator.chart_types
ChartTypes == {"bar", "line", "pie", "scatter", "area", "table"}

\* what generate_sql returns: a failure with its error, or a text and a hint
Generated ==
    {[success |-> FALSE, error |-> "LLM error: quota exceeded",
      sql |-> "", visualization_hint |-> ""]}
    \cup {[success |-> TRUE, error |-> "", sql |-> q, visualization_hint |-> h] :
             q \in AppQueries, h \in Hints}

\* VisualizationGenerator.generate on a non-empty list of rows: a figure for
\* 'auto' and for a known chart type, success False for any other type; the
\* DataFrame construction and the table fallback are not guarded
VizOutcomes(chart_type) ==
    (IF chart_type \in ChartTypes \cup {"auto"} THEN {"success"} ELSE {"failed"})
    \cup {"raises"}

\* something process_question puts on the page
Msg(kind, text) == [kind |-> kind, text |-> text]

\* dict.get(key, default)
dict_get(d, key, default) == IF key \in DOMAIN d THEN d[key] ELSE default

\* `except Exception as e: st.error(f"Error: {str(e)}")`
ShowException(e) == Msg("error", "Error: " \o e)

\* a mutant of HistoryAfter: the entry is appended whatever generate returned
HistoryAfterAlways(viz, entry) == Append(history, entry)

\* st.session_state.history.append(...) inside `if viz_result.get('success')`
HistoryAfter(viz, entry) ==
    IF viz = "success" THEN Append(history, entry) ELSE history

\* what is shown after viz_generator.generate: the chart and the success
\* message when viz_result['success'], nothing when it is False, the message
\* of the exception when it raised
ShownAfterViz(viz) ==
    CASE viz = "success" ->
            <<Msg("chart", "plotly_chart"), Msg("success", "Dashboard generated!")>>
      [] viz = "failed" -> <<>>
      [] OTHER -> <<ShowException("DataFrame constructor not properly called!")>>

\* process_question after generate_sql has succeeded: the text is shown, then
\* execute_query is called once, then the result decides
AfterGeneration(g) ==
    /\ ExecuteQuery(g.sql)
    /\ execute_query_calls' = 1
    /\ IF raised' # ""
       THEN /\ shown' = <<Msg("code", g.sql), ShowException(raised')>>
            /\ UNCHANGED history
       ELSE IF ~result'.success
       THEN /\ shown' =
                  <<Msg("code", g.sql),
                    Msg("error", "Query execution failed: "
                          \o dict_get(result_or_error', "error", "Unknown error"))>>
            /\ UNCHANGED history
       ELSE IF result_or_error'.row_count = 0
       THEN /\ shown' =
                  <<Msg("code", g.sql),
                    Msg("warning", "Query executed but returned no results")>>
            /\ UNCHANGED history
       ELSE \E viz \in VizOutcomes(g.visualization_hint) :
               /\ shown' = <<Msg("code", g.sql)>> \o ShownAfterViz(viz)
               /\ history' = HistoryAfter(viz, [sql |-> g.sql])

\* process_question: the components are constructed, generate_sql is called
\* with the session's schema_description, and the engine is created from the
\* session's connection_string
process_question ==
    /\ asked' = TRUE
    /\ UNCHANGED <<db_connected, llm_configured, schema_loaded,
                   connection_string, schema_description>>
    /\ \/ \* TextToSQLGenerator(provider) raises: no API key
          /\ shown' = <<ShowException("No API key found for provider: gemini")>>
          /\ generator_schema' = "None"
          /\ engine_url' = "None"
          /\ execute_query_calls' = 0
          /\ UNCHANGED <<history, callVars, threadVars>>
       \/ \E g \in Generated :
             /\ generator_schema' = schema_description
             /\ engine_url' = connection_string
             /\ IF g.success
                THEN AfterGeneration(g)
                ELSE /\ shown' =
                           <<Msg("error", "Failed to generate query: " \o g.error)>>
                     /\ execute_query_calls' = 0
                     /\ UNCHANGED <<history, callVars, threadVars>>

\* the user connects to a database, from the sidebar
ConnectDatabase ==
    /\ asked = FALSE
    /\ \E cs \in ConnectionStrings : \E outcome \in ConnectOutcomes :
          connect_database(cs, outcome)

\* the user submits a question
ProcessQuestion ==
    /\ asked = FALSE
    /\ InterfaceShown
    /\ Len(history) < MaxHistory
    /\ process_question

\* the next run of the script: the page is drawn anew
Rerun ==
    /\ asked = TRUE
    /\ asked' = FALSE
    /\ shown' = <<>>
    /\ generator_schema' = "None"
    /\ engine_url' = "None"
    /\ execute_query_calls' = 0
    /\ op' = "none"
    /\ sql' = ""
    /\ verdict' = NoVerdict
    /\ result' = NoResult
    /\ connect_calls' = 0
    /\ executed' = <<>>
    /\ raised' = ""
    /\ acquired' = 0
    /\ released' = 0
    /\ result_or_error' = NoDict
    /\ UNCHANGED <<dialect, fault, process, again, threadVars, sessionVars>>

AppInit ==
    /\ op = "none"
    /\ sql = ""
    /\ verdict = NoVerdict
    /\ result = NoResult
    /\ dialect \in Dialects
    /\ connect_calls = 0
    /\ executed = <<>>
    /\ fault \in Faults
    /\ raised = ""
    /\ process = "none"
    /\ again = NoVerdict
    /\ GateIdle
    /\ SessionStart
    /\ NoQuestion
    /\ ThreadsIdle

AppNext == ConnectDatabase \/ ConfigureLLM \/ ProcessQuestion \/ ClearHistory \/ Rerun

AppSpec == AppInit /\ [][AppNext]_vars

(***************************************************************************)
(* Notions the properties are stated in.                                   *)
(***************************************************************************)
OnlySelect == "Only SELECT queries are allowed"

SuspiciousComment == "Suspicious comment pattern detected"

Rejected(reason) == Verdict(FALSE, <<reason>>)

\* the tokens of a text that are neither whitespace nor comments
Significant(text) ==
    SelectSeq(tokenize(text), LAMBDA t : ~is_whitespace(t) /\ ~is_comment(t))

\* the first significant token of the text is the keyword SELECT
StartsWithSelect(text) ==
    LET sig == Significant(text)
    IN sig # <<>> /\ sig[1].ttype = "DML" /\ upper(sig[1].value) = "SELECT"

\* the text has a first significant token, and it is not the keyword SELECT
StartsWithOther(text) == Significant(text) # <<>> /\ ~StartsWithSelect(text)

\* the words of the set that occur in the text as whole words, in any letter case
WordsOf(text, words) ==
    LET u == upper(text) IN {w \in words : WordSearch(w, u)}

\* the names of the set that occur in the text, in any letter case
NamesOf(text, names) ==
    LET u == upper(text) IN {n \in names : Contains(u, n)}

\* a destructive keyword stands after a '--' marker; with sameLine, on its line
DestructiveAfterMarker(text, sameLine) ==
    LET u == upper(text)
    IN \E i \in 1..Len(text) :
        /\ StartsAt(text, i, "--")
        /\ \E j \in (i + 2)..Len(text) :
            /\ \E w \in DestructiveWords : StartsAt(u, j, w)
            /\ sameLine => ~Contains(SubSeq(text, i, j - 1), "\n")

\* the statements validate() finds in the text
StatementsOf(text) == parse(Normalized(text))

\* the text is one statement, and it starts with SELECT
SingleSelect(text) ==
    /\ Len(StatementsOf(text)) = 1
    /\ StartsWithSelect(text)

\* the call has handed the query text to conn.execute
QuerySent == executed # <<>> /\ executed[Len(executed)] # TimeoutStatement

\* the query text the call handed to conn.execute
SentText == executed[Len(executed)]

(***************************************************************************)
(* The properties.                                                         *)
(***************************************************************************)

\* C1: fail-closed.  When validate() rejects the input, execute_query returns a
\* failure that carries the validation reasons, and it has made no
\* engine.connect() call and no conn.execute() call.
C1_FailClosed ==
    (op = "execute_query" /\ ~verdict.allowed) =>
        /\ result = [success |-> FALSE, kind |-> "errors", errors |-> verdict.reasons]
        /\ verdict.reasons # <<>>
        /\ connect_calls = 0
        /\ executed = <<>>

\* C1, witness: execute_query has returned the rejection of a DROP statement
C1_Witness ==
    /\ op = "execute_query"
    /\ sql = "Drop"
    /\ verdict = Rejected(OnlySelect)
    /\ result.errors = <<OnlySelect>>
    /\ connect_calls = 0

\* the text is what the claim calls read-only, single-statement and
\* non-destructive: one statement, starting with SELECT, with no forbidden
\* keyword as a whole word and no forbidden function name
ReadOnlySingle(text) ==
    /\ Len(parse(text)) = 1
    /\ StartsWithSelect(text)
    /\ WordsOf(text, FORBIDDEN_KEYWORDS) = {}
    /\ NamesOf(text, FORBIDDEN_FUNCTIONS) = {}

\* C2: every query text that execute_query hands to the database is one
\* statement whose first keyword is SELECT and which holds no forbidden keyword
\* as a whole word and no forbidden function name.
C2_ExecutedTextIsSafe ==
    (op = "execute_query" /\ QuerySent) => ReadOnlySingle(SentText)

\* C3: an input that, after the trailing-semicolon normalization, holds more
\* than one non-empty statement is rejected by validate().
C3_MultipleStatementsRejected ==
    (op = "validate" /\ Len(StatementsOf(sql)) > 1) => ~verdict.allowed

\* C4 as stated: for every input whose first significant token is not the
\* keyword SELECT, validate() rejects with "Only SELECT queries are allowed".
C4_AllowListAsStated ==
    (op = "validate" /\ StartsWithOther(sql)) => verdict = Rejected(OnlySelect)

\* C4, amended: for every input that is not empty after the trailing-semicolon
\* normalization and whose first significant token is not the keyword SELECT,
\* validate() rejects with "Only SELECT queries are allowed"; an input that the
\* normalization empties is rejected too, with another reason.
C4_AllowList ==
    (op = "validate" /\ StartsWithOther(sql)) =>
        /\ ~verdict.allowed
        /\ Normalized(sql) # "" => verdict = Rejected(OnlySelect)
        /\ Normalized(sql) = "" =>
              verdict \in {Rejected("Unable to parse SQL"), Rejected("Empty query")}

\* C4, witness: an UPDATE statement has been rejected by the allow-list
C4_Witness ==
    /\ op = "validate"
    /\ sql = "UPDATE"
    /\ StartsWithOther(sql)
    /\ verdict = Rejected(OnlySelect)

\* C5: for every keyword k of FORBIDDEN_KEYWORDS, a SELECT statement that holds
\* k as a whole word, in any letter case, is rejected by validate().
C5_KeywordBlock ==
    (op = "validate" /\ StartsWithSelect(sql)
        /\ WordsOf(sql, FORBIDDEN_KEYWORDS) # {}) => ~verdict.allowed

\* C5, witness: a SELECT with the lower-case word grant has been rejected
C5_Witness ==
    /\ op = "validate"
    /\ sql = "SELECT a grant"
    /\ verdict = Rejected("Forbidden keyword detected: GRANT")

\* C6: a single SELECT statement in which forbidden and destructive keywords
\* occur only inside longer identifiers is rejected neither by the
\* forbidden-keyword scan nor by the comment-pattern scan.
C6_NoOverBlocking ==
    (op = "validate" /\ SingleSelect(sql)
        /\ WordsOf(sql, FORBIDDEN_KEYWORDS \cup DestructiveWords) = {}) =>
        /\ verdict # Rejected(SuspiciousComment)
        /\ \A k \in FORBIDDEN_KEYWORDS :
              verdict # Rejected("Forbidden keyword detected: " \o k)

RECURSIVE Literals(_)
\* the string literals of a token list, one after the other
Literals(toks) ==
    IF toks = <<>> THEN ""
    ELSE (IF toks[1].ttype = "String" THEN toks[1].value ELSE "")
         \o Literals(Tail(toks))

RECURSIVE EmptyLiterals(_)
\* the text of a token list with every string literal emptied
EmptyLiterals(toks) ==
    IF toks = <<>> THEN ""
    ELSE (IF toks[1].ttype = "String" THEN "''" ELSE toks[1].value)
         \o EmptyLiterals(Tail(toks))

\* C7: a SELECT that is valid but for a forbidden keyword inside single-quoted
\* string literals is allowed by validate().
C7_KeywordInLiteralAllowed ==
    (op = "validate"
        /\ WordsOf(Literals(tokenize(sql)), FORBIDDEN_KEYWORDS) # {}
        /\ NamesOf(sql, FORBIDDEN_FUNCTIONS) = {}
        /\ validate(EmptyLiterals(tokenize(sql))) = {Verdict(TRUE, <<>>)}) =>
        verdict.allowed

C9_CommentTruncationRejected ==
    (op = "validate" /\ SingleSelect(sql)
        /\ Contains(sql, " OR 1=1")
        /\ Len(sql) >= 2 /\ From(sql, Len(sql) - 1) = "--"
        /\ NamesOf(sql, DestructiveWords) = {}) => ~verdict.allowed

\* C10 as stated: a SELECT statement in which DROP, DELETE, INSERT, UPDATE or
\* EXEC stands after a '--' marker is rejected with
\* "Suspicious comment pattern detected".
C10_CommentReasonAsStated ==
    (op = "validate" /\ SingleSelect(sql) /\ DestructiveAfterMarker(sql, FALSE)) =>
        verdict = Rejected(SuspiciousComment)

\* C10, amended: a single SELECT statement in which DROP, DELETE, INSERT, UPDATE
\* or EXEC stands after a '--' marker on the marker's line is rejected; the
\* reason is "Suspicious comment pattern detected" when the statement holds no
\* forbidden keyword as a whole word and no forbidden function name, and the
\* reason of the keyword or function scan otherwise.
C10_CommentPattern ==
    (op = "validate" /\ SingleSelect(sql) /\ DestructiveAfterMarker(sql, TRUE)) =>
        /\ ~verdict.allowed
        /\ IF WordsOf(sql, FORBIDDEN_KEYWORDS) # {}
           THEN \E k \in WordsOf(sql, FORBIDDEN_KEYWORDS) :
                    verdict = Rejected("Forbidden keyword detected: " \o k)
           ELSE IF NamesOf(sql, FORBIDDEN_FUNCTIONS) # {}
           THEN \E f \in NamesOf(sql, FORBIDDEN_FUNCTIONS) :
                    verdict = Rejected("Forbidden function detected: " \o f)
           ELSE verdict = Rejected(SuspiciousComment)

\* C10, witness: an identifier that holds UPDATE stands after the marker
C10_Witness ==
    /\ op = "validate"
    /\ sql = "SELECT a --updated_at"
    /\ verdict = Rejected(SuspiciousComment)

\* the text holds one of the comment markers the injection scan looks for
HasCommentMarker(text) ==
    Contains(text, "--") \/ Contains(text, "/*") \/ Contains(text, "*/")

\* C11: completeness of the gate.  An input that is a single statement starting
\* with SELECT and holds no forbidden keyword as a whole word, no forbidden
\* function name, no comment marker and no interior semicolon is allowed by
\* validate() with an empty reason list.
C11_Complete ==
    (op = "validate" /\ SingleSelect(sql)
        /\ WordsOf(sql, FORBIDDEN_KEYWORDS) = {}
        /\ NamesOf(sql, FORBIDDEN_FUNCTIONS) = {}
        /\ ~HasCommentMarker(sql)
        /\ ~Contains(Normalized(sql), ";")) => verdict = Verdict(TRUE, <<>>)

\* C11, witness: a SELECT with the identifier updated_at has been allowed
C11_Witness ==
    /\ op = "validate"
    /\ sql = "SELECT a updated_at"
    /\ verdict = Verdict(TRUE, <<>>)

\* the text is a run of ';' and whitespace with at least one ';'
IsTerminatorSuffix(text) ==
    /\ Contains(text, ";")
    /\ \A i \in 1..Len(text) : At(text, i) \in SpaceChars \cup {";"}

\* the texts q of which the text is q followed by a terminator suffix
WithoutTerminators(text) ==
    {SubSeq(text, 1, i - 1) : i \in {j \in 1..Len(text) : IsTerminatorSuffix(From(text, j))}}

\* C12: trailing terminators are tolerated.  For every query q that the
\* normalization does not empty and every suffix of one or more ';' with
\* surrounding whitespace, validate(q + suffix) yields the verdict and reasons
\* of validate(q).
C12_TerminatorsTolerated ==
    op = "validate" =>
        \A q \in WithoutTerminators(sql) :
            Normalized(q) # "" =>
                verdict \in validate(q) /\ validate(q) \subseteq validate(sql)

\* C13: an input whose trimmed text is empty is rejected by validate() with
\* the single reason "Empty query", and an input of semicolons and whitespace
\* only is rejected as well.
C13_EmptyQuery ==
    op = "validate" =>
        /\ strip(sql) = "" => verdict = Rejected("Empty query")
        /\ (\A i \in 1..Len(sql) : At(sql, i) \in SpaceChars \cup {";"}) =>
              ~verdict.allowed /\ verdict.reasons # <<>>

\* C13, witness: a newline alone has been rejected as an empty query
C13_Witness ==
    /\ op = "validate"
    /\ sql = "\n"
    /\ verdict = Rejected("Empty query")

\* C14: validate() never raises.  In every run, also one in which
\* sqlparse.parse raises, validate returns a verdict and no exception reaches
\* the caller; a failure of the parse is the rejection "SQL parsing error: ...".
C14_NeverRaises ==
    op = "validate" =>
        /\ raised = ""
        /\ verdict.allowed \/ verdict.reasons # <<>>
        /\ (fault = "parse" /\ strip(sql) # "") =>
              \E e \in FaultTexts : verdict = Rejected("SQL parsing error: " \o e)

\* C14, witness: sqlparse.parse has raised on a SELECT, and validate has
\* returned the rejection
C14_Witness ==
    /\ op = "validate"
    /\ fault = "parse"
    /\ sql = "SELECT a "
    /\ raised = ""
    /\ verdict = Rejected("SQL parsing error: maximum recursion depth exceeded")

\* C15: validate() is deterministic.  A second run on the same input, in the
\* same or in another process, returns the allowed flag and the ordered reason
\* list of the first.
C15_Deterministic ==
    op = "validate again" => again = verdict

\* C16: in every verdict validate() returns, allowed is true if and only if the
\* reason list is empty.
C16_AllowedIffNoReasons ==
    op \in {"validate", "execute_query"} =>
        (verdict.allowed <=> verdict.reasons = <<>>)

\* C16, witness: a rejection with one reason, and the text it was given for
C16_Witness ==
    /\ op = "validate"
    /\ sql = "SELECT a;drop"
    /\ ~verdict.allowed
    /\ Len(verdict.reasons) = 1

\* C17: concurrent callers need no coordination.  When two callers run
\* validate() through the same SQLValidator under any interleaving, each call
\* returns a verdict that a sequential call on its own input returns: only
\* reasons for its own input, and no rejection with an empty reason list.
C17_ConcurrentCallsIsolated ==
    \A c \in Callers : pc[c] = "done" => Held(c) \in validate(input[c])

\* the text has a LIMIT clause: the keyword LIMIT outside comments and literals
HasLimitClause(text) ==
    \E i \in DOMAIN tokenize(text) :
        LET t == tokenize(text)[i]
        IN t.ttype = "Keyword" /\ upper(t.value) = "LIMIT"

RECURSIVE LimitValues(_)
\* the value that follows each LIMIT keyword of a token list, in order
LimitValues(sig) ==
    IF sig = <<>> THEN <<>>
    ELSE (IF sig[1].ttype = "Keyword" /\ upper(sig[1].value) = "LIMIT"
          THEN <<IF Len(sig) > 1 THEN sig[2].value ELSE "">>
          ELSE <<>>) \o LimitValues(Tail(sig))

\* the text ends with the appended row bound
EndsWithRowBound(text) ==
    LET bound == " LIMIT " \o ToString(max_rows)
    IN StartsAt(text, Len(text) - Len(bound) + 1, bound)

\* C18: row bound.  For every accepted query that has no LIMIT clause, the text
\* execute_query sends to the store ends with ' LIMIT <max_rows>', also when
\* the word limit occurs only inside an identifier or a string literal.
C18_RowBound ==
    (op = "execute_query" /\ verdict.allowed /\ QuerySent /\ ~HasLimitClause(sql)) =>
        EndsWithRowBound(SentText)

C20_NoFaultEscapes ==
    op = "execute_query" =>
        /\ raised = ""
        /\ result.kind \in {"errors", "error", "rows"}

\* C21: every connection execute_query acquires is released before the call
\* returns, on success and on every failure path (the timeout statement
\* fails, the query fails, fetching the rows fails): no call has returned
\* while it still holds a connection.
C21_ConnectionReleased == op = "execute_query" => released = acquired

\* C21, witness: the timeout statement raised on the connection the call had
\* acquired; the call has returned its failure and has given the connection back
C21_Witness ==
    /\ op = "execute_query"
    /\ acquired = 1
    /\ released = 1
    /\ executed = <<TimeoutStatement>>
    /\ result.kind = "error"

\* the statement timeout of the executor, in milliseconds
statement_timeout_ms == 30000

\* C22: on postgresql execute_query sets the statement timeout, to
\* statement_timeout_ms, on the connection it has acquired before it runs the
\* query on that same connection; on every other backend the step is skipped
\* and the query is the one statement that runs.
C22_TimeoutBeforeQuery ==
    (op = "execute_query" /\ acquired = 1) =>
        /\ connect_calls = 1
        /\ IF dialect = "postgresql"
           THEN /\ executed[1] =
                       "SET statement_timeout = " \o ToString(statement_timeout_ms)
                /\ Len(executed) <= 2
                /\ Len(executed) = 2 <=> QuerySent
                /\ result.success => QuerySent
           ELSE Len(executed) = 1 /\ QuerySent

\* C22, witness: a successful call on postgresql has set the timeout and then
\* run the query
C22_Witness ==
    /\ op = "execute_query"
    /\ dialect = "postgresql"
    /\ result.success
    /\ executed = <<TimeoutStatement, "SELECT a LIMIT 10000">>

\* C23 as stated: a call on an accepted query makes one connection and hands
\* exactly one statement to the store, on every backend; a call on a rejected
\* query hands none.
C23_OneStatementAsStated ==
    op = "execute_query" =>
        IF verdict.allowed
        THEN /\ connect_calls = 1
             /\ Len(executed) <= 1
             /\ result.success => Len(executed) = 1
        ELSE connect_calls = 0 /\ executed = <<>>

\* C23: a call on an accepted query calls engine.connect() once and hands the
\* query text to conn.execute at most once, exactly once when it succeeds; on
\* postgresql the SET statement_timeout statement is one more statement, sent
\* before it; nothing is sent again after a failure; a call on a rejected
\* query makes no connection and sends nothing.
C23_OneQueryCall ==
    op = "execute_query" =>
        IF verdict.allowed
        THEN LET queries == {i \in DOMAIN executed : executed[i] # TimeoutStatement}
                 timeouts == DOMAIN executed \ queries
             IN /\ connect_calls = 1
                /\ acquired <= 1
                /\ Cardinality(queries) <= 1
                /\ result.success => Cardinality(queries) = 1
                /\ Cardinality(timeouts) <= IF dialect = "postgresql" THEN 1 ELSE 0
                /\ \A i \in timeouts : \A j \in queries : i < j
                /\ acquired = 0 => executed = <<>>
        ELSE connect_calls = 0 /\ acquired = 0 /\ executed = <<>>

\* C23, witness: the query raised on postgresql; the call has returned the
\* failure after the two statements, and has sent nothing again
C23_Witness ==
    /\ op = "execute_query"
    /\ dialect = "postgresql"
    /\ result.kind = "error"
    /\ executed = <<TimeoutStatement, "SELECT a LIMIT 10000">>
    /\ result_or_error.error = "Query execution error: no such column: a"

\* C24: in every successful result row_count is the number of rows, columns
\* has no name twice, and every row is a mapping whose keys are exactly the
\* names in columns, with one value for every projected column.
C24_ResultShape ==
    (op = "execute_query" /\ result.success) =>
        LET r == result_or_error
        IN /\ r.row_count = Len(r.rows)
           /\ \A i, j \in DOMAIN r.columns : i # j => r.columns[i] # r.columns[j]
           /\ \A i \in DOMAIN r.rows :
                 /\ DOMAIN r.rows[i] = Range(r.columns)
                 /\ Cardinality(DOMAIN r.rows[i]) = Len(r.columns)

\* the text has a comment: a token the lexer reads as a comment
HasComment(text) == \E i \in DOMAIN tokenize(text) : is_comment(tokenize(text)[i])

\* C26: sanitize_query is idempotent on accepted queries: for a text that
\* validate() allows, sanitizing the sanitized text gives the sanitized text;
\* the sanitized text has no comment and does not end with a semicolon.
C26_SanitizeIdempotent ==
    (op = "execute_query" /\ verdict.allowed) =>
        LET once == sanitize_query(sql)
        IN /\ sanitize_query(once) = once
           /\ ~HasComment(once)
           /\ once = "" \/ At(once, Len(once)) # ";"

\* C27: the forbidden-keyword scan accumulates its violations: for a SELECT
\* statement with n distinct forbidden keywords as whole words the reasons of
\* the rejection are the n entries "Forbidden keyword detected: <keyword>",
\* one for each keyword, and nothing of a later stage.
C27_AllKeywordsReported ==
    (op = "validate" /\ SingleSelect(sql)) =>
        LET found == WordsOf(Normalized(sql), FORBIDDEN_KEYWORDS)
        IN found # {} =>
            /\ ~verdict.allowed
            /\ Range(verdict.reasons) =
                   {"Forbidden keyword detected: " \o keyword : keyword \in found}
            /\ Len(verdict.reasons) = Cardinality(found)

\* the last thing process_question has put on the page
LastShown == shown[Len(shown)]

\* C25: when execute_query fails, process_question shows the detail of the
\* failure: the reasons of the validator for a rejected query, the message of
\* the runtime failure for a query that failed in the store; never a
\* placeholder in their place.
C25_FailureDetailShown ==
    (asked /\ execute_query_calls = 1 /\ raised = "" /\ ~result.success) =>
        /\ LastShown.kind = "error"
        /\ ~Contains(LastShown.text, "Unknown error")
        /\ IF result.kind = "errors"
           THEN \A i \in DOMAIN verdict.reasons :
                    Contains(LastShown.text, verdict.reasons[i])
           ELSE Contains(LastShown.text, result_or_error.error)

\* the kinds of message that tell the user how the question ended
OutcomeKinds == {"success", "warning", "error"}

\* C28: every run of process_question ends with an outcome on the page: the
\* chart with the success message, a warning, or an error; also when the
\* visualization returned success = False.
C28_OutcomeShown ==
    asked =>
        /\ \E i \in DOMAIN shown : shown[i].kind \in OutcomeKinds
        /\ (\E i \in DOMAIN shown : shown[i].kind = "success") =>
              (\E i \in DOMAIN shown : shown[i].kind = "chart")

\* a chart is on the page
ChartShown == \E i \in DOMAIN shown : shown[i].kind = "chart"

\* the order of the steps in the state after a question
WorkflowOrder ==
    /\ execute_query_calls <= 1
    /\ execute_query_calls = 1 <=>
          (asked /\ op = "execute_query" /\ shown[1] = Msg("code", sql))
    /\ ChartShown =>
          /\ execute_query_calls = 1
          /\ result.success
          /\ result_or_error.row_count > 0
          /\ LastShown.kind = "success"

\* a step changes the history only by the one entry of a question that ended
\* with its chart, or by Clear History, which empties it
HistoryStep ==
    history' # history =>
        \/ /\ asked'
           /\ history' = Append(history, [sql |-> sql'])
           /\ ChartShown'
        \/ /\ ~asked'
           /\ history' = <<>>

\* C29: execute_query is called at most once for a question and only after
\* the generation has succeeded; a chart is shown only after execute_query
\* has succeeded with row_count > 0; the history grows by exactly one entry,
\* and only after a successful visualization, it is unchanged on every
\* failure path, and Clear History empties it.
C29_WorkflowOrder ==
    /\ []WorkflowOrder
    /\ [][HistoryStep]_vars
    /\ [][(asked' /\ ChartShown') => Len(history') = Len(history) + 1]_vars

\* C29, witness: the second question of the session has ended with its chart
C29_Witness ==
    /\ asked
    /\ ChartShown
    /\ execute_query_calls = 1
    /\ history = <<[sql |-> "SELECT a LIMIT 5"], [sql |-> "SELECT a "]>>

\* C30: when a question is processed, the schema description given to the
\* generator is the one loaded from the connection string the query is
\* executed against, after any sequence of connect attempts.
C30_SchemaOfConnection ==
    (asked /\ engine_url # "None") => generator_schema = SchemaOf(engine_url)

====
